---- MODULE Spec2Model ----
(***************************************************************************)
(* zip-sizer: estimate the compressed size of a directory tree by sampling *)
(* the last sample_size bytes of every chunk_size bytes of the collated    *)
(* file data, compressing the sample and extrapolating.                    *)
(*                                                                         *)
(* The model follows main() of src/python/zip-sizer.py step by step:       *)
(*   list_files_with_sizes -> sample_data -> compress_sampled_data ->      *)
(*   step 4 (extrapolation) -> step 5 (report).                            *)
(* Sizes are scaled down: chunk_size ranges over 1..MaxChunk instead of    *)
(* the fixed 10 MiB, as sample_data of src/estimate-compression.py takes   *)
(* chunk_size and sample_size as parameters.                               *)
(***************************************************************************)
EXTENDS Integers, Sequences, FiniteSets

\* ---- bounds of the model ------------------------------------------------
MaxEntries == 3
MaxFileSize == 3
MaxChunk == 4
MaxCompressedLen == 1

VARIABLES
    pc,               \* position in main()
    chunk_size,       \* CHUNKSIZE / chunk_size parameter
    sample_size,      \* int(args.sampling_ratio * CHUNKSIZE)
    walked,           \* directory entries os.walk has yielded so far
    files_with_sizes, \* the inventory: sequence of [path, size]
    total_size,       \* sample_data: sum of the sizes
    sampling_points,  \* sample_data: remaining sampling points (popped from the front)
    current_offset,   \* sample_data: virtual offset of the current file, as the code tracks it
    fileIdx,          \* sample_data: position of the for loop in files_with_sizes
    openFiles,        \* inventory positions whose file handle is open
    sampled_data,     \* the sample buffer: sequence of bytes, a byte is <<path, offset in file>>
    iterLog,          \* history: one record per for-iteration of sample_data
    reads,            \* history: one record per f.seek/f.read pair that returned
    faulted,          \* history: a recoverable error was raised in sample_data
    compressed_size,  \* main: len(compressed sample)
    original_size,    \* main: sum of the sizes, step 4
    estimate,         \* main: compressed_size after step 4, as the fraction num/den
    stdout,           \* main: report lines printed so far
    exception         \* uncaught exception that ended the run, or "none"

vars == <<pc, chunk_size, sample_size, walked, files_with_sizes, total_size,
          sampling_points, current_offset, fileIdx, openFiles, sampled_data,
          iterLog, reads, faulted, compressed_size, original_size, estimate,
          stdout, exception>>

scanVars == <<walked, files_with_sizes>>
sampleVars == <<total_size, sampling_points, current_offset, fileIdx, openFiles,
                sampled_data, iterLog, reads, faulted>>
mainVars == <<compressed_size, original_size, estimate, stdout>>

\* ---- pure helpers -------------------------------------------------------
Min(a, b) == IF a < b THEN a ELSE b

Max(a, b) == IF a > b THEN a ELSE b

\* sum(size for _, size in files_with_sizes)
RECURSIVE SumSizes(_)
SumSizes(fs) == IF fs = <<>> THEN 0 ELSE fs[1].size + SumSizes(Tail(fs))

\* list(range(start, stop, step)) for step > 0
RECURSIVE PyRange(_, _, _)
PyRange(start, stop, step) ==
    IF start >= stop THEN <<>> ELSE <<start>> \o PyRange(start + step, stop, step)

\* variant: the step argument of range() left out
SamplingPointsNoStep(chunk, sample, total) == PyRange(chunk - sample, total, 1)

\* variant: the windows taken at the head of every chunk instead of its tail
SamplingPointsFromZero(chunk, sample, total) == PyRange(0, total, chunk)

\* sampling_points = list(range(CHUNKSIZE - sample_size, total_size, CHUNKSIZE))
SamplingPoints(chunk, sample, total) == PyRange(chunk - sample, total, chunk)

\* variant: ">" in place of ">=" in the skip test
SkipFileStrict(points, offset, filesize) ==
    IF Len(points) = 0 THEN TRUE ELSE points[1] > offset + filesize

\* "if not sampling_points or sampling_points[0] >= current_offset + filesize"
SkipFile(points, offset, filesize) ==
    IF Len(points) = 0 THEN TRUE ELSE points[1] >= offset + filesize

\* variant: ">=" in place of ">" in the while test
InFileInclusive(points, offset, filesize) ==
    IF Len(points) = 0 THEN FALSE ELSE offset + filesize >= points[1]

\* "while sampling_points and current_offset + filesize > sampling_points[0]"
InFile(points, offset, filesize) ==
    IF Len(points) = 0 THEN FALSE ELSE offset + filesize > points[1]

\* relative_offset = sampling_points[0] - current_offset
RelativeOffset(point, offset) == point - offset

\* f.seek(pos); f.read(n) on a file of filesize bytes: the bytes from pos up
\* to the end of the file, at most n of them
FileRead(path, filesize, pos, n) ==
    LET k == Max(0, Min(n, filesize - pos))
    IN  IF k = 0 THEN <<>> ELSE [i \in 1..k |-> <<path, pos + i - 1>>]

\* variant: the except branches advance current_offset before "continue"
OffsetAfterErrorAdvanced(offset, filesize) == offset + filesize

\* current_offset after an except branch: "continue" skips line 92
OffsetAfterError(offset, filesize) == offset

\* logging.warning(msg, **kwargs): Logger._log accepts only these keywords
LoggingKwargs == {"exc_info", "extra", "stack_info", "stacklevel"}

LoggingWarning(kwargs) == IF kwargs \subseteq LoggingKwargs THEN "none" ELSE "TypeError"

\* ---- initial state: arguments parsed and validated ----------------------
Init ==
    /\ pc = "list"
    /\ chunk_size \in 1..MaxChunk
    /\ sample_size \in 0..chunk_size
    /\ walked = 0
    /\ files_with_sizes = <<>>
    /\ total_size = 0
    /\ sampling_points = <<>>
    /\ current_offset = 0
    /\ fileIdx = 0
    /\ openFiles = {}
    /\ sampled_data = <<>>
    /\ iterLog = <<>>
    /\ reads = <<>>
    /\ faulted = FALSE
    /\ compressed_size = 0
    /\ original_size = 0
    /\ estimate = [num |-> 0, den |-> 1]
    /\ stdout = <<>>
    /\ exception = "none"

\* ---- list_files_with_sizes ----------------------------------------------
\* os.walk yields an entry that is not a regular file: "continue"
ListNotRegular ==
    /\ pc = "list"
    /\ walked < MaxEntries
    /\ walked' = walked + 1
    /\ UNCHANGED <<pc, chunk_size, sample_size, files_with_sizes, exception>>
    /\ UNCHANGED sampleVars
    /\ UNCHANGED mainVars

\* os.path.getsize succeeds: append (filepath, filesize)
ListAppend ==
    /\ pc = "list"
    /\ walked < MaxEntries
    /\ \E filesize \in 0..MaxFileSize :
          files_with_sizes' =
              Append(files_with_sizes, [path |-> walked + 1, size |-> filesize])
    /\ walked' = walked + 1
    /\ UNCHANGED <<pc, chunk_size, sample_size, exception>>
    /\ UNCHANGED sampleVars
    /\ UNCHANGED mainVars

\* os.path.getsize raises OSError: the handler calls
\* logging.warning(..., file=sys.stderr)
ListStatFails ==
    /\ pc = "list"
    /\ walked < MaxEntries
    /\ walked' = walked + 1
    /\ LET raised == LoggingWarning({"file"})
       IN  /\ exception' = raised
           /\ pc' = IF raised = "none" THEN "list" ELSE "crashed"
    /\ UNCHANGED <<chunk_size, sample_size, files_with_sizes>>
    /\ UNCHANGED sampleVars
    /\ UNCHANGED mainVars

\* os.walk is exhausted: return files_with_sizes, main calls sample_data
ListReturn ==
    /\ pc = "list"
    /\ pc' = "sample"
    /\ UNCHANGED <<chunk_size, sample_size, exception>>
    /\ UNCHANGED scanVars
    /\ UNCHANGED sampleVars
    /\ UNCHANGED mainVars

\* ---- sample_data ----------------------------------------------------------
CurFile == files_with_sizes[fileIdx]

NextPoint == IF Len(sampling_points) = 0 THEN -1 ELSE sampling_points[1]

IterRecord(act) ==
    [idx |-> fileIdx, offset |-> current_offset, size |-> CurFile.size,
     next |-> NextPoint, act |-> act]

\* lines 56-73: total_size, sampling_points, current_offset = 0
SampleInit ==
    /\ pc = "sample"
    /\ total_size' = SumSizes(files_with_sizes)
    /\ sampling_points' =
           SamplingPoints(chunk_size, sample_size, SumSizes(files_with_sizes))
    /\ current_offset' = 0
    /\ fileIdx' = 1
    /\ sampled_data' = <<>>
    /\ pc' = "for"
    /\ UNCHANGED <<chunk_size, sample_size, openFiles, iterLog, reads, faulted,
                   exception>>
    /\ UNCHANGED scanVars
    /\ UNCHANGED mainVars

\* lines 76-78: the file holds no sampling point
ForSkip ==
    /\ pc = "for"
    /\ fileIdx <= Len(files_with_sizes)
    /\ SkipFile(sampling_points, current_offset, CurFile.size)
    /\ current_offset' = current_offset + CurFile.size
    /\ fileIdx' = fileIdx + 1
    /\ iterLog' = Append(iterLog, IterRecord("skip"))
    /\ UNCHANGED <<pc, chunk_size, sample_size, total_size, sampling_points,
                   openFiles, sampled_data, reads, faulted, exception>>
    /\ UNCHANGED scanVars
    /\ UNCHANGED mainVars

\* line 82: open(filepath, "rb") succeeds
ForOpen ==
    /\ pc = "for"
    /\ fileIdx <= Len(files_with_sizes)
    /\ ~SkipFile(sampling_points, current_offset, CurFile.size)
    /\ openFiles' = openFiles \cup {fileIdx}
    /\ iterLog' = Append(iterLog, IterRecord("open"))
    /\ pc' = "while"
    /\ UNCHANGED <<chunk_size, sample_size, total_size, sampling_points,
                   current_offset, fileIdx, sampled_data, reads, faulted, exception>>
    /\ UNCHANGED scanVars
    /\ UNCHANGED mainVars

\* line 82 raises (FileNotFoundError, PermissionError, IsADirectoryError,
\* OSError): lines 93-114 log and "continue"
ForOpenFails ==
    /\ pc = "for"
    /\ fileIdx <= Len(files_with_sizes)
    /\ ~SkipFile(sampling_points, current_offset, CurFile.size)
    /\ iterLog' = Append(iterLog, IterRecord("open_failed"))
    /\ faulted' = TRUE
    /\ current_offset' = OffsetAfterError(current_offset, CurFile.size)
    /\ fileIdx' = fileIdx + 1
    /\ UNCHANGED <<pc, chunk_size, sample_size, total_size, sampling_points,
                   openFiles, sampled_data, reads, exception>>
    /\ UNCHANGED scanVars
    /\ UNCHANGED mainVars

\* lines 83-90: one sampling point inside the open file
WhileRead ==
    /\ pc = "while"
    /\ InFile(sampling_points, current_offset, CurFile.size)
    /\ LET point == sampling_points[1]
           relative_offset == RelativeOffset(point, current_offset)
           data == FileRead(CurFile.path, CurFile.size, relative_offset, sample_size)
       IN  /\ sampled_data' = sampled_data \o data
           /\ reads' = Append(reads, [point |-> point, idx |-> fileIdx,
                                      rel |-> relative_offset, len |-> Len(data),
                                      at |-> Len(sampled_data),
                                      afterFault |-> faulted])
    /\ sampling_points' = Tail(sampling_points)
    /\ UNCHANGED <<pc, chunk_size, sample_size, total_size, current_offset,
                   fileIdx, openFiles, iterLog, faulted, exception>>
    /\ UNCHANGED scanVars
    /\ UNCHANGED mainVars

\* f.seek or f.read raises OSError inside the with block: the handle is
\* closed, lines 93-114 log and "continue"
WhileReadFails ==
    /\ pc = "while"
    /\ InFile(sampling_points, current_offset, CurFile.size)
    /\ openFiles' = openFiles \ {fileIdx}
    /\ faulted' = TRUE
    /\ current_offset' = OffsetAfterError(current_offset, CurFile.size)
    /\ fileIdx' = fileIdx + 1
    /\ pc' = "for"
    /\ UNCHANGED <<chunk_size, sample_size, total_size, sampling_points,
                   sampled_data, iterLog, reads, exception>>
    /\ UNCHANGED scanVars
    /\ UNCHANGED mainVars

\* the while condition is false: leave the with block, line 92
WhileExit ==
    /\ pc = "while"
    /\ ~InFile(sampling_points, current_offset, CurFile.size)
    /\ openFiles' = openFiles \ {fileIdx}
    /\ current_offset' = current_offset + CurFile.size
    /\ fileIdx' = fileIdx + 1
    /\ pc' = "for"
    /\ UNCHANGED <<chunk_size, sample_size, total_size, sampling_points,
                   sampled_data, iterLog, reads, faulted, exception>>
    /\ UNCHANGED scanVars
    /\ UNCHANGED mainVars

\* line 115: return sampled_data
SampleReturn ==
    /\ pc = "for"
    /\ fileIdx > Len(files_with_sizes)
    /\ pc' = "compress"
    /\ UNCHANGED <<chunk_size, sample_size, exception>>
    /\ UNCHANGED scanVars
    /\ UNCHANGED sampleVars
    /\ UNCHANGED mainVars

\* ---- compress_sampled_data and main --------------------------------------
\* gzip.compress / bz2.compress: the output always holds a header, so its
\* length is positive; which length is the library's business
Compress ==
    /\ pc = "compress"
    /\ \E n \in 1..MaxCompressedLen : compressed_size' = n
    /\ pc' = "estimate"
    /\ UNCHANGED <<chunk_size, sample_size, original_size, estimate, stdout,
                   exception>>
    /\ UNCHANGED scanVars
    /\ UNCHANGED sampleVars

\* lines 148-153, the division is defined or not evaluated
Estimate ==
    /\ pc = "estimate"
    /\ LET orig == SumSizes(files_with_sizes)
       IN  /\ ~(orig > 0 /\ Len(sampled_data) = 0)
           /\ original_size' = orig
           /\ estimate' = IF orig > 0
                          THEN [num |-> compressed_size * orig, den |-> Len(sampled_data)]
                          ELSE [num |-> 0, den |-> 1]
    /\ pc' = "report"
    /\ UNCHANGED <<chunk_size, sample_size, compressed_size, stdout, exception>>
    /\ UNCHANGED scanVars
    /\ UNCHANGED sampleVars

\* line 150: float(compressed_size) / len(sampled_data) with an empty sample
EstimateDivZero ==
    /\ pc = "estimate"
    /\ LET orig == SumSizes(files_with_sizes)
       IN  /\ orig > 0
           /\ Len(sampled_data) = 0
           /\ original_size' = orig
    /\ exception' = "ZeroDivisionError"
    /\ pc' = "crashed"
    /\ UNCHANGED <<chunk_size, sample_size, compressed_size, estimate, stdout>>
    /\ UNCHANGED scanVars
    /\ UNCHANGED sampleVars

\* lines 156-168: the three report lines
Report ==
    /\ pc = "report"
    /\ estimate.num # 0
    /\ stdout' = <<[line |-> "original", value |-> [num |-> original_size, den |-> 1]],
                   [line |-> "estimated", value |-> estimate],
                   [line |-> "ratio",
                    value |-> [num |-> original_size * estimate.den,
                               den |-> estimate.num]]>>
    /\ pc' = "done"
    /\ UNCHANGED <<chunk_size, sample_size, compressed_size, original_size,
                   estimate, exception>>
    /\ UNCHANGED scanVars
    /\ UNCHANGED sampleVars

\* line 165: original_size / compressed_size with compressed_size == 0
ReportDivZero ==
    /\ pc = "report"
    /\ estimate.num = 0
    /\ stdout' = <<[line |-> "original", value |-> [num |-> original_size, den |-> 1]],
                   [line |-> "estimated", value |-> estimate]>>
    /\ exception' = "ZeroDivisionError"
    /\ pc' = "crashed"
    /\ UNCHANGED <<chunk_size, sample_size, compressed_size, original_size, estimate>>
    /\ UNCHANGED scanVars
    /\ UNCHANGED sampleVars

Next ==
    \/ ListNotRegular
    \/ ListAppend
    \/ ListStatFails
    \/ ListReturn
    \/ SampleInit
    \/ ForSkip
    \/ ForOpen
    \/ ForOpenFails
    \/ WhileRead
    \/ WhileReadFails
    \/ WhileExit
    \/ SampleReturn
    \/ Compress
    \/ Estimate
    \/ EstimateDivZero
    \/ Report
    \/ ReportDivZero

Spec == Init /\ [][Next]_vars

\* ---- properties -----------------------------------------------------------
\* virtual offset at which inventory entry i starts
Start(i) == SumSizes(SubSeq(files_with_sizes, 1, i - 1))

\* the sampling plan of the inventory
Plan == SamplingPoints(chunk_size, sample_size, SumSizes(files_with_sizes))

\* sample_data has been entered / has returned
SampleEntered == fileIdx >= 1

SampleReturned == SampleEntered /\ pc \in {"compress", "estimate", "report", "done", "crashed"}

ValidParams == 0 < sample_size /\ sample_size <= chunk_size

\* bytes read from inventory entry k over the first n reads
RECURSIVE BytesReadFrom(_, _)
BytesReadFrom(k, n) ==
    IF n = 0 THEN 0
    ELSE (IF reads[n].idx = k THEN reads[n].len ELSE 0) + BytesReadFrom(k, n - 1)

\* C1: after a recoverable error on a file, every later inventory entry is
\* processed with current_offset equal to the sum of the sizes of all entries
\* before it (the failed file's size is still counted).
C1_OffsetCountsFailedFile ==
    ValidParams =>
        \A i \in 1..Len(iterLog) : iterLog[i].offset = Start(iterLog[i].idx)

\* C2: with total_size = 0 the plan and the sample are empty and main ends
\* with a report: estimated size 0, ratio undefined, no division fault.
C2_ZeroTotalReported ==
    (SampleEntered /\ ValidParams /\ total_size = 0) =>
        /\ Len(sampling_points) = 0
        /\ Len(sampled_data) = 0
        /\ exception = "none"
        /\ (pc = "done" => /\ estimate.num = 0
                           /\ Len(stdout) = 3
                           /\ stdout[3].value.den = 0)

\* C3: with original_size > 0 and an empty sample, main still completes and
\* reports; it is not aborted by the division by the sample length.
C3_EmptySampleReported ==
    (SampleReturned /\ ValidParams /\ ~faulted /\ SumSizes(files_with_sizes) > 0
        /\ Len(sampled_data) = 0) => exception = "none"

\* C4: in an error-free run every sampling point of the plan is consumed
\* exactly once, in ascending order, by the entry whose virtual range holds
\* it, at file-local offset point - start; none is left at the end.
C4_PointsResolvedOnce ==
    (SampleEntered /\ ~faulted) =>
        /\ Len(reads) + Len(sampling_points) = Len(Plan)
        /\ sampling_points = SubSeq(Plan, Len(reads) + 1, Len(Plan))
        /\ \A i \in 1..Len(reads) :
              LET r == reads[i]
                  size == files_with_sizes[r.idx].size
              IN  /\ r.point = Plan[i]
                  /\ Start(r.idx) <= r.point
                  /\ r.point < Start(r.idx) + size
                  /\ r.rel = r.point - Start(r.idx)
        /\ \A i, j \in 1..Len(reads) : i < j => reads[i].idx <= reads[j].idx
        /\ (SampleReturned => Len(sampling_points) = 0)

\* C4 witness: an error-free walk has returned after resolving points in two
\* different files, one of them landing exactly on the start of its file.
C4_Witness ==
    /\ pc = "compress"
    /\ ~faulted
    /\ Len(reads) >= 2
    /\ reads[1].idx # reads[Len(reads)].idx
    /\ \E i \in 1..Len(reads) :
          /\ reads[i].idx > 1
          /\ reads[i].rel = 0
          /\ reads[i].point = Start(reads[i].idx)
          /\ reads[i].point > 0

\* C5: an entry whose size cannot be determined is skipped and the scan goes
\* on; the failure never ends the run from inside the inventory scan.
C5_StatFailureSkipped == ~(pc = "crashed" /\ ~SampleEntered)

\* C6: in an error-free run the buffer is the concatenation of one read per
\* point in ascending order, every read but the last has length sample_size,
\* and the last is short only by what lies past total_size.
C6_OnlyLastReadShort ==
    (SampleEntered /\ ValidParams /\ ~faulted) =>
        \A i \in 1..Len(reads) :
            LET r == reads[i]
            IN  /\ r.at = (IF i = 1 THEN 0 ELSE reads[i - 1].at + reads[i - 1].len)
                /\ r.len = (IF i < Len(Plan) THEN sample_size
                            ELSE Min(sample_size, total_size - r.point))

\* C7: with 0 < sample_size <= chunk_size the bytes read from one file, over
\* all windows resolved to it, never exceed the file's size.
C7_BytesPerFileBounded ==
    ValidParams =>
        \A k \in 1..Len(files_with_sizes) :
            BytesReadFrom(k, Len(reads)) <= files_with_sizes[k].size

\* C7 witness: two windows were read from one file and they use it up.
C7_Witness ==
    /\ ValidParams
    /\ \E i, j \in 1..Len(reads) :
          /\ i < j
          /\ reads[i].idx = reads[j].idx
          /\ reads[j].len < sample_size
          /\ BytesReadFrom(reads[i].idx, Len(reads)) = files_with_sizes[reads[i].idx].size

\* C8: at the end of sample_data, with 0 < sample_size <= chunk_size,
\* len(sample) * chunk_size <= total_size * sample_size.
C8_SampleLengthBounded ==
    (SampleReturned /\ ValidParams) =>
        Len(sampled_data) * chunk_size <= total_size * sample_size

\* C8 witness: the walk returned a sample over a total that is no multiple of
\* chunk_size, with a window cut short by a file boundary.
C8_Witness ==
    /\ pc = "compress"
    /\ ValidParams
    /\ total_size % chunk_size # 0
    /\ Len(reads) >= 2
    /\ reads[1].len < sample_size
    /\ reads[1].len > 0

\* C9: an entry is handled once; it is opened only when an unconsumed point
\* lies in [current_offset, current_offset + filesize) and skipped with no
\* I/O otherwise; reads go to opened files only; at most one file is open.
C9_OpenOnlyWithPoint ==
    /\ Cardinality(openFiles) <= 1
    /\ (pc # "while" => openFiles = {})
    /\ \A i, j \in 1..Len(iterLog) : i < j => iterLog[i].idx < iterLog[j].idx
    /\ \A i \in 1..Len(iterLog) :
          LET r == iterLog[i]
          IN  IF r.next = -1 \/ r.next >= r.offset + r.size
              THEN r.act = "skip"
              ELSE /\ r.act \in {"open", "open_failed"}
                   /\ r.offset <= r.next
                   /\ r.size > 0
    /\ \A i \in 1..Len(reads) :
          \E j \in 1..Len(iterLog) :
              iterLog[j].idx = reads[i].idx /\ iterLog[j].act = "open"

\* C9 witness: a zero-byte file was skipped with points pending, a file was
\* opened and read, and a later file was skipped with no points left.
C9_Witness ==
    /\ Len(iterLog) = 3
    /\ iterLog[1].act = "skip" /\ iterLog[1].size = 0 /\ iterLog[1].next # -1
    /\ iterLog[2].act = "open"
    /\ iterLog[3].act = "skip" /\ iterLog[3].next = -1 /\ iterLog[3].size > 0
    /\ Len(reads) >= 1

\* C10: the next unconsumed point never lies before current_offset, and every
\* seek uses 0 <= relative_offset < filesize, after any mix of skipped, read
\* and failed files.
C10_SeekInsideFile ==
    /\ (pc \in {"for", "while"} /\ Len(sampling_points) > 0) =>
           sampling_points[1] >= current_offset
    /\ \A i \in 1..Len(reads) :
          /\ 0 <= reads[i].rel
          /\ reads[i].rel < files_with_sizes[reads[i].idx].size

\* C10 witness: a seek and read issued after an earlier file had failed.
C10_Witness ==
    \E i \in 1..Len(reads) : reads[i].afterFault /\ reads[i].rel > 0

====
